---- MODULE Spec2Model ----
(***************************************************************************)
(* DICOM metadata -> RDF knowledge graph.                                  *)
(*                                                                         *)
(*   map_dicom_complete.py  parse_value, json_to_rdf_multiple_catalogs     *)
(*   main.py                download_catalog_rdf_file                      *)
(*                                                                         *)
(* Strings are TLA+ strings, taken apart character by character with Len,  *)
(* SubSeq and \o.  An RDF graph is a set of triples <<s, p, o>> of terms.  *)
(***************************************************************************)
EXTENDS Integers, Sequences, FiniteSets, TLC

(***************************************************************************)
(* Bounds.                                                                 *)
(***************************************************************************)
\* Longest interchange list handed to json_to_rdf_multiple_catalogs.
MaxFiles == 2
\* Longest raw value drawn exhaustively for parse_value.
MaxRawLen == 4
\* Most triples in a graph loaded by main.py.
MaxTriples == 4
\* Most items the result of a query yields.
MaxRows == 2

(***************************************************************************)
(* Python string operations.                                               *)
(***************************************************************************)
ch(s, k) == SubSeq(s, k, k)

\* c in s, for a character c
contains(s, c) == \E k \in 1..Len(s) : ch(s, k) = c

startswith(s, c) == Len(s) >= 1 /\ ch(s, 1) = c

endswith(s, c) == Len(s) >= 1 /\ ch(s, Len(s)) = c

\* file_path.replace("\\", "/")
RECURSIVE replace(_)
replace(s) ==
    IF s = "" THEN ""
    ELSE (IF ch(s, 1) = "\\" THEN "/" ELSE ch(s, 1)) \o replace(SubSeq(s, 2, Len(s)))

\* str.split('/'): the runs between separators, empty runs kept.
RECURSIVE split(_)
split(s) ==
    IF ~contains(s, "/")
    THEN <<s>>
    ELSE LET k == CHOOSE k \in 1..Len(s) :
                      ch(s, k) = "/" /\ \A j \in 1..(k - 1) : ch(s, j) # "/"
         IN  <<SubSeq(s, 1, k - 1)>> \o split(SubSeq(s, k + 1, Len(s)))

\* os.path.basename: what follows the last separator.  posixpath knows '/'
\* alone, ntpath both '/' and '\' (no drive letter is drawn).
basename(p, os) ==
    LET seps == IF os = "nt" THEN {"/", "\\"} ELSE {"/"}
        cuts == {k \in 1..Len(p) : ch(p, k) \in seps}
        last == IF cuts = {} THEN 0
                ELSE CHOOSE k \in cuts : \A j \in cuts : j <= k
    IN  SubSeq(p, last + 1, Len(p))

(***************************************************************************)
(* RDF terms and the vocabulary.                                           *)
(***************************************************************************)
URIRef(s) == [kind |-> "URIRef", lex |-> s, datatype |-> ""]

BNode(s) == [kind |-> "BNode", lex |-> s, datatype |-> ""]

\* rdflib.Literal: two literals are equal when lexical form and datatype are.
Literal(s, dt) == [kind |-> "Literal", lex |-> s, datatype |-> dt]

XSD(local) == "http://www.w3.org/2001/XMLSchema#" \o local

DCTERMS(local) == URIRef("http://purl.org/dc/terms/" \o local)

ROO(local) == URIRef("http://www.cancerdata.org/roo/" \o local)

SNOMED(local) == URIRef("http://snomed.info/sct/" \o local)

DCAT(local) == URIRef("http://www.w3.org/ns/dcat#" \o local)

FOAF_NS(local) == URIRef("http://xmlns.com/foaf/0.1/" \o local)

DICOM(local) == URIRef("http://dicom.nema.org/resources/ontology/DCM#" \o local)

RDF(local) == URIRef("http://www.w3.org/1999/02/22-rdf-syntax-ns#" \o local)

\* JSON values: a string, or null (None).
Str(s) == [t |-> "str", s |-> s]

None == [t |-> "null", s |-> ""]

\* snomed_mapping.get(key): the coded concept, or None
snomed_mapping(key) ==
    CASE key = "THYROID" -> SNOMED("111160001")
      [] key = "RECTUM" -> SNOMED("34506005")
      [] OTHER -> None

\* mapping[name]: the predicates of a DICOM element name, <<>> when absent
mapping(name) ==
    CASE
       name = "SOP Instance UID" -> <<DICOM("SOPInstanceUID")>>
    [] name = "Study Date" -> <<DCTERMS("created")>>
    [] name = "Series Date" -> <<DICOM("SeriesDate")>>
    [] name = "Acquisition Date" -> <<DICOM("AcquisitionDate")>>
    [] name = "Study Time" -> <<DICOM("StudyTime")>>
    [] name = "Series Time" -> <<DICOM("SeriesTime")>>
    [] name = "Acquisition Time" -> <<DICOM("AcquisitionTime")>>
    [] name = "Accession Number" -> <<DICOM("AccessionNumber")>>
    [] name = "Modality" -> <<DICOM("Modality")>>
    [] name = "Manufacturer" -> <<DICOM("Manufacturer")>>
    [] name = "Study Description" -> <<DCTERMS("description")>>
    [] name = "Series Description" -> <<DICOM("SeriesDescription")>>
    [] name = "Manufacturer's Model Name" -> <<DICOM("ManufacturerModelName")>>
    [] name = "Patient's Name" -> <<FOAF_NS("name")>>
    [] name = "Patient ID" -> <<DICOM("PatientID")>>
    [] name = "Patient's Sex" -> <<ROO("hasSex")>>
    [] name = "Patient's Age" -> <<ROO("hasAge")>>
    [] name = "Additional Patient History" -> <<ROO("hasPatientHistory")>>
    [] name = "Body Part Examined" -> <<ROO("hasAnatomicSite"), DICOM("BodyPartExamined")>>
    [] name = "Scan Options" -> <<DICOM("ScanOptions")>>
    [] name = "Slice Thickness" -> <<DICOM("SliceThickness")>>
    [] name = "KVP" -> <<DICOM("KVP")>>
    [] name = "Data Collection Diameter" -> <<DICOM("DataCollectionDiameter")>>
    [] name = "Software Versions" -> <<DICOM("SoftwareVersions")>>
    [] name = "Protocol Name" -> <<DICOM("ProtocolName")>>
    [] name = "Distance Source to Detector" -> <<DICOM("DistanceSourceToDetector")>>
    [] name = "Distance Source to Patient" -> <<DICOM("DistanceSourceToPatient")>>
    [] name = "Gantry/Detector Tilt" -> <<DICOM("GantryDetectorTilt")>>
    [] name = "Table Height" -> <<DICOM("TableHeight")>>
    [] name = "Rotation Direction" -> <<DICOM("RotationDirection")>>
    [] name = "Exposure Time" -> <<DICOM("ExposureTime")>>
    [] name = "X-Ray Tube Current" -> <<DICOM("XRayTubeCurrent")>>
    [] name = "Exposure" -> <<DICOM("Exposure")>>
    [] name = "Filter Type" -> <<DICOM("FilterType")>>
    [] name = "Generator Power" -> <<DICOM("GeneratorPower")>>
    [] name = "Focal Spot(s)" -> <<DICOM("FocalSpots")>>
    [] name = "Convolution Kernel" -> <<DICOM("ConvolutionKernel")>>
    [] name = "Patient Position" -> <<DICOM("PatientPosition")>>
    [] name = "Study Instance UID" -> <<DICOM("StudyInstanceUID")>>
    [] name = "Series Instance UID" -> <<DICOM("SeriesInstanceUID")>>
    [] name = "Series Number" -> <<DICOM("SeriesNumber")>>
    [] name = "Instance Number" -> <<DICOM("InstanceNumber")>>
    [] name = "Image Position (Patient)" -> <<DICOM("ImagePositionPatient")>>
    [] name = "Image Orientation (Patient)" -> <<DICOM("ImageOrientationPatient")>>
    [] name = "Rows" -> <<DICOM("Rows")>>
    [] name = "Columns" -> <<DICOM("Columns")>>
    [] name = "Reason for Study" -> <<ROO("hasReasonForStudy")>>
    [] name = "Study Comments" -> <<ROO("hasStudyComment")>>
      [] OTHER -> <<>>

(***************************************************************************)
(* Python number parsing: int(str) and float(str), and str() of the        *)
(* result, which rdflib takes as the literal's lexical form.  Exponents,   *)
(* "inf" and "nan" need letters and are not drawn; str(float) is the       *)
(* positional form, which Python prints for 1e-4 <= |x| < 1e16.            *)
(***************************************************************************)
IsDigit(c) == c \in {"0", "1", "2", "3", "4", "5", "6", "7", "8", "9"}

DigitVal(c) == (CHOOSE k \in 1..10 : ch("0123456789", k) = c) - 1

\* str.strip() of blanks
RECURSIVE strip(_)
strip(s) ==
    IF startswith(s, " ") THEN strip(SubSeq(s, 2, Len(s)))
    ELSE IF endswith(s, " ") THEN strip(SubSeq(s, 1, Len(s) - 1))
    ELSE s

\* digit (["_"] digit)*
digitpart(s) ==
    /\ s # ""
    /\ \A k \in 1..Len(s) : IsDigit(ch(s, k)) \/ ch(s, k) = "_"
    /\ IsDigit(ch(s, 1)) /\ IsDigit(ch(s, Len(s)))
    /\ \A k \in 1..(Len(s) - 1) : ~(ch(s, k) = "_" /\ ch(s, k + 1) = "_")

\* the value of a digitpart
RECURSIVE NatVal(_)
NatVal(s) ==
    IF s = "" THEN 0
    ELSE IF endswith(s, "_") THEN NatVal(SubSeq(s, 1, Len(s) - 1))
    ELSE 10 * NatVal(SubSeq(s, 1, Len(s) - 1)) + DigitVal(ch(s, Len(s)))

\* str(n) for n >= 0
RECURSIVE NatStr(_)
NatStr(n) ==
    IF n < 10 THEN ch("0123456789", n + 1)
    ELSE NatStr(n \div 10) \o ch("0123456789", (n % 10) + 1)

signof(s) == IF startswith(s, "-") THEN "-" ELSE ""

unsigned(s) ==
    IF startswith(s, "-") \/ startswith(s, "+") THEN SubSeq(s, 2, Len(s)) ELSE s

\* int(s) does not raise ValueError
int_ok(s) == digitpart(unsigned(strip(s)))

\* str(int(s))
int_str(s) ==
    LET n == NatVal(unsigned(strip(s)))
    IN  (IF n = 0 THEN "" ELSE signof(strip(s))) \o NatStr(n)

\* the text before and after the first '.'
intpart(s) ==
    LET k == CHOOSE k \in 1..Len(s) : ch(s, k) = "." /\ ~contains(SubSeq(s, 1, k - 1), ".")
    IN  SubSeq(s, 1, k - 1)

fracpart(s) ==
    LET k == CHOOSE k \in 1..Len(s) : ch(s, k) = "." /\ ~contains(SubSeq(s, 1, k - 1), ".")
    IN  SubSeq(s, k + 1, Len(s))

\* float(s) does not raise ValueError
float_ok(s) ==
    LET u == unsigned(strip(s))
    IN  IF ~contains(u, ".") THEN digitpart(u)
        ELSE /\ intpart(u) = "" \/ digitpart(intpart(u))
             /\ fracpart(u) = "" \/ digitpart(fracpart(u))
             /\ ~(intpart(u) = "" /\ fracpart(u) = "")

\* a digit string without its underscores
RECURSIVE digits(_)
digits(s) ==
    IF s = "" THEN ""
    ELSE (IF ch(s, 1) = "_" THEN "" ELSE ch(s, 1)) \o digits(SubSeq(s, 2, Len(s)))

\* a digit string without its trailing zeros
RECURSIVE rstrip0(_)
rstrip0(s) == IF endswith(s, "0") THEN rstrip0(SubSeq(s, 1, Len(s) - 1)) ELSE s

\* str(float(s)) for s with a '.'
float_str(s) ==
    LET u == unsigned(strip(s))
        f == rstrip0(digits(fracpart(u)))
    IN  signof(strip(s)) \o NatStr(NatVal(intpart(u))) \o "." \o (IF f = "" THEN "0" ELSE f)

(***************************************************************************)
(* map_dicom_complete.py: parse_value                                      *)
(***************************************************************************)
NUMERIC_VR == {"DS", "IS", "FD", "US"}

ValueError == [kind |-> "ValueError", lex |-> "", datatype |-> ""]

\* parse_numeric converting with int() whatever the text holds
parse_numeric_int(s) ==
    IF startswith(s, "[") /\ endswith(s, "]") THEN Literal(s, "")
    ELSE IF int_ok(s) THEN Literal(int_str(s), XSD("integer")) ELSE ValueError

\* lines 85-87, the body of the try: a literal, or ValueError raised
parse_numeric(s) ==
    IF startswith(s, "[") /\ endswith(s, "]") THEN Literal(s, "")
    ELSE IF contains(s, ".")
         THEN (IF float_ok(s) THEN Literal(float_str(s), XSD("decimal")) ELSE ValueError)
         ELSE (IF int_ok(s) THEN Literal(int_str(s), XSD("integer")) ELSE ValueError)

\* parse_value reformatting a date only when its eight characters are digits
parse_value_digits(value, vr) ==
    IF value = None THEN None
    ELSE IF vr \in NUMERIC_VR
         THEN (IF parse_numeric(value.s) = ValueError
               THEN Literal(value.s, "")
               ELSE parse_numeric(value.s))
    ELSE IF vr = "DA"
         THEN (IF Len(value.s) = 8 /\ \A k \in 1..8 : IsDigit(ch(value.s, k))
               THEN Literal(SubSeq(value.s, 1, 4) \o "-" \o SubSeq(value.s, 5, 6)
                            \o "-" \o SubSeq(value.s, 7, 8), XSD("date"))
               ELSE Literal(value.s, ""))
    ELSE IF vr = "TM" THEN Literal(value.s, XSD("time"))
    ELSE Literal(value.s, "")

parse_value(value, vr) ==
    IF value = None THEN None
    ELSE IF vr \in NUMERIC_VR
         THEN (IF parse_numeric(value.s) = ValueError
               THEN Literal(value.s, "")
               ELSE parse_numeric(value.s))
    ELSE IF vr = "DA"
         THEN (IF Len(value.s) = 8
               THEN Literal(SubSeq(value.s, 1, 4) \o "-" \o SubSeq(value.s, 5, 6)
                            \o "-" \o SubSeq(value.s, 7, 8), XSD("date"))
               ELSE Literal(value.s, ""))
    ELSE IF vr = "TM" THEN Literal(value.s, XSD("time"))
    ELSE Literal(value.s, "")

(***************************************************************************)
(* map_dicom_complete.py: json_to_rdf_multiple_catalogs                     *)
(*                                                                         *)
(* An item of the interchange list is [FilePath, Dataset]; an item without *)
(* a FilePath key reads as FilePath "" (item.get("FilePath", "")) and one  *)
(* without a Dataset key, such as an error item, as Dataset <<>>.          *)
(* catalogs, a dict, is the sequence of its entries in insertion order.    *)
(***************************************************************************)
\* str.upper() over ASCII letters
RECURSIVE upper(_)
upper(s) ==
    IF s = "" THEN ""
    ELSE LET c == ch(s, 1)
             low == {k \in 1..26 : ch("abcdefghijklmnopqrstuvwxyz", k) = c}
         IN  (IF low = {} THEN c
              ELSE ch("ABCDEFGHIJKLMNOPQRSTUVWXYZ", CHOOSE k \in low : TRUE))
             \o upper(SubSeq(s, 2, Len(s)))

path_parts(file_path) == split(replace(file_path))

\* group_item taking the first path segment for the catalog name
group_item_first(cats, item) ==
    IF Len(path_parts(item.FilePath)) > 1
    THEN LET catalog_name == path_parts(item.FilePath)[1]
         IN  IF \E k \in DOMAIN cats : cats[k].catalog_name = catalog_name
             THEN [k \in DOMAIN cats |->
                      IF cats[k].catalog_name = catalog_name
                      THEN [cats[k] EXCEPT !.catalog_data = Append(@, item)]
                      ELSE cats[k]]
             ELSE Append(cats, [catalog_name |-> catalog_name, catalog_data |-> <<item>>])
    ELSE cats

\* group_item assigning [item] to the entry instead of appending to it
group_item_overwrite(cats, item) ==
    IF Len(path_parts(item.FilePath)) > 1
    THEN LET catalog_name == path_parts(item.FilePath)[2]
         IN  IF \E k \in DOMAIN cats : cats[k].catalog_name = catalog_name
             THEN [k \in DOMAIN cats |->
                      IF cats[k].catalog_name = catalog_name
                      THEN [cats[k] EXCEPT !.catalog_data = <<item>>]
                      ELSE cats[k]]
             ELSE Append(cats, [catalog_name |-> catalog_name, catalog_data |-> <<item>>])
    ELSE cats

\* one pass of the grouping loop (lines 117-125)
group_item(cats, item) ==
    IF Len(path_parts(item.FilePath)) > 1
    THEN LET catalog_name == path_parts(item.FilePath)[2]
         IN  IF \E k \in DOMAIN cats : cats[k].catalog_name = catalog_name
             THEN [k \in DOMAIN cats |->
                      IF cats[k].catalog_name = catalog_name
                      THEN [cats[k] EXCEPT !.catalog_data = Append(@, item)]
                      ELSE cats[k]]
             ELSE Append(cats, [catalog_name |-> catalog_name, catalog_data |-> <<item>>])
    ELSE cats

catalog_uri(catalog_name) == URIRef("http://example.org/catalog/" \o catalog_name)

\* dataset_uri without the catalog name interpolated
dataset_uri_constant(catalog_name) == URIRef("http://example.org/dataset/")

dataset_uri(catalog_name) == URIRef("http://example.org/dataset/" \o catalog_name)

\* study_uid with a sentinel for its default
study_uid_sentinel(first_file_dataset) ==
    LET hits == {k \in DOMAIN first_file_dataset :
                    first_file_dataset[k].Name = "Study Instance UID"}
    IN  IF hits = {} THEN Str("unknown_study")
        ELSE first_file_dataset[CHOOSE k \in hits : \A j \in hits : k <= j].Value

\* next((elem.get("Value") for elem in ... if Name == "Study Instance UID"), None)
study_uid(first_file_dataset) ==
    LET hits == {k \in DOMAIN first_file_dataset :
                    first_file_dataset[k].Name = "Study Instance UID"}
    IN  IF hits = {} THEN None
        ELSE first_file_dataset[CHOOSE k \in hits : \A j \in hits : k <= j].Value

\* the facts of a catalog and of its dataset, uid being the study identifier
\* that was looked up (lines 130-150)
catalog_facts_with(catalog_name, catalog_data, uid) ==
        {<<catalog_uri(catalog_name), RDF("type"), DCAT("Catalog")>>,
         <<catalog_uri(catalog_name), DCTERMS("title"),
           Literal("DICOM Collection: " \o catalog_name, "")>>,
         <<catalog_uri(catalog_name), DCAT("dataset"), dataset_uri(catalog_name)>>,
         <<catalog_uri(catalog_name), DCTERMS("publisher"),
           Literal("Priyanka Test Catalog Publisher", "")>>,
         <<catalog_uri(catalog_name), DCTERMS("language"), Literal("en", "")>>,
         <<catalog_uri(catalog_name), DCTERMS("issued"), Literal("2025-08-10", XSD("date"))>>,
         <<dataset_uri(catalog_name), RDF("type"), DCAT("Dataset")>>,
         <<dataset_uri(catalog_name), DCTERMS("title"),
           Literal("DICOM Files for " \o catalog_name, "")>>,
         <<dataset_uri(catalog_name), DCTERMS("description"),
           Literal("A dataset containing all DICOM metadata for catalog "
                   \o catalog_name \o ".", "")>>}
        \cup (IF catalog_data # <<>> /\ uid # None /\ uid.s # ""
              THEN {<<dataset_uri(catalog_name), DCTERMS("identifier"), Literal(uid.s, "")>>}
              ELSE {})

\* catalog_facts reading the study identifier of the last file
catalog_facts_last(catalog_name, catalog_data) ==
    catalog_facts_with(catalog_name, catalog_data,
                       study_uid(catalog_data[Len(catalog_data)].Dataset))

\* first_file_dataset = catalog_data[0].get("Dataset", [])
catalog_facts(catalog_name, catalog_data) ==
    catalog_facts_with(catalog_name, catalog_data, study_uid(catalog_data[1].Dataset))

subject_id(item, os) == basename(item.FilePath, os)

subject(catalog_name, item, os) ==
    URIRef("http://example.org/dicom/" \o catalog_name \o "_" \o subject_id(item, os))

\* elem_facts looking the text up as it is written
elem_facts_exact(subj, elem) ==
    IF mapping(elem.Name) # <<>> /\ elem.Value # None
    THEN {<<subj, mapping(elem.Name)[k],
            IF mapping(elem.Name)[k] = ROO("hasAnatomicSite")
            THEN (IF snomed_mapping(elem.Value.s) # None
                  THEN snomed_mapping(elem.Value.s)
                  ELSE Literal(elem.Value.s, ""))
            ELSE parse_value(elem.Value, elem.VR)>> : k \in DOMAIN mapping(elem.Name)}
    ELSE {}

\* the facts of one element of a file
elem_facts(subj, elem) ==
    IF mapping(elem.Name) # <<>> /\ elem.Value # None
    THEN {<<subj, mapping(elem.Name)[k],
            IF mapping(elem.Name)[k] = ROO("hasAnatomicSite")
            THEN (IF snomed_mapping(upper(elem.Value.s)) # None
                  THEN snomed_mapping(upper(elem.Value.s))
                  ELSE Literal(elem.Value.s, ""))
            ELSE parse_value(elem.Value, elem.VR)>> : k \in DOMAIN mapping(elem.Name)}
    ELSE {}

\* file_facts without the type fact of the distribution
file_facts_untyped(catalog_name, item, os) ==
    {<<dataset_uri(catalog_name), DCAT("distribution"), subject(catalog_name, item, os)>>,
     <<subject(catalog_name, item, os), DCTERMS("title"), Literal(subject_id(item, os), "")>>,
     <<subject(catalog_name, item, os), DCAT("mediaType"), Literal("application/dicom", "")>>}
    \cup UNION {elem_facts(subject(catalog_name, item, os), item.Dataset[k]) :
                   k \in DOMAIN item.Dataset}

\* the facts of one file of a catalog
file_facts(catalog_name, item, os) ==
    {<<dataset_uri(catalog_name), DCAT("distribution"), subject(catalog_name, item, os)>>,
     <<subject(catalog_name, item, os), RDF("type"), DCAT("Distribution")>>,
     <<subject(catalog_name, item, os), DCTERMS("title"), Literal(subject_id(item, os), "")>>,
     <<subject(catalog_name, item, os), DCAT("mediaType"), Literal("application/dicom", "")>>}
    \cup UNION {elem_facts(subject(catalog_name, item, os), item.Dataset[k]) :
                   k \in DOMAIN item.Dataset}

\* the grouping loop over a whole list
RECURSIVE group_all(_)
group_all(items) ==
    IF items = <<>> THEN <<>>
    ELSE group_item(group_all(SubSeq(items, 1, Len(items) - 1)), items[Len(items)])

\* the graph the function serializes for a whole list
json_to_rdf_multiple_catalogs(items, os) ==
    LET cats == group_all(items)
    IN  UNION {catalog_facts(cats[c].catalog_name, cats[c].catalog_data)
                 \cup UNION {file_facts(cats[c].catalog_name, cats[c].catalog_data[k], os) :
                                k \in DOMAIN cats[c].catalog_data} : c \in DOMAIN cats}

(***************************************************************************)
(* State.                                                                  *)
(***************************************************************************)
VARIABLES
    data,         \* mapper: the list loaded from json_file
    os_name,      \* mapper: the platform os.path is bound to, "posix" or "nt"
    pc,           \* mapper: the loop the function is in
    i,            \* mapper: index of the next item of the grouping loop
    catalogs,     \* mapper: the dict catalog_name -> items, in insertion order
    c,            \* mapper: index of the current entry of catalogs.items()
    f,            \* mapper: index of the next item of catalog_data
    g,            \* mapper: the graph under construction
    output_file,  \* mapper: the serialized graph, once written
    g_main,       \* main.py: the graph g loaded from the Turtle file
    request,      \* main.py: the catalog_name of the last request
    response,     \* main.py: the response to it
    value,        \* parse_value: the raw value
    vr,           \* parse_value: the type code
    result,       \* parse_value: what the call returned
    elem,         \* element loop: the record of the current pass
    facts,        \* element loop: the facts the pass added to the graph
    sparql_query, \* main.py: the query posted to /sparql
    sq_pc,        \* main.py: the statement sparql_query_endpoint is at
    qres,         \* main.py: what is left of the result the evaluator iterates
    results,      \* main.py: the list of row dicts built so far
    sq_response   \* main.py: the response to the query

mapper_vars == <<data, os_name, pc, i, catalogs, c, f, g, output_file>>

server_vars == <<g_main, request, response>>

parse_vars == <<value, vr, result>>

elem_vars == <<elem, facts>>

query_vars == <<sparql_query, sq_pc, qres, results, sq_response>>

vars == <<mapper_vars, server_vars, parse_vars, elem_vars, query_vars>>

(***************************************************************************)
(* Inputs of the mapper.                                                   *)
(***************************************************************************)
Elem(name, code, val) == [Name |-> name, VR |-> code, Value |-> val]

Item(path, elems) == [FilePath |-> path, Dataset |-> elems]

StudyS1 == <<Elem("Study Instance UID", "UI", Str("S1")), Elem("Modality", "CS", Str("CT"))>>

StudyS2 == <<Elem("Study Instance UID", "UI", Str("S2")), Elem("Modality", "CS", Str("CT"))>>

NoStudy == <<Elem("Modality", "CS", Str("CT"))>>

\* Files in one and in several directories, with '/' and with '\', with one,
\* two and three path segments, with and without a study identifier.
Items ==
    {Item("catalogA/study1/a.dcm", StudyS1),
     Item("catalogA/study1/b.dcm", StudyS1),
     Item("catalogA/study1/b.dcm", StudyS2),
     Item("catalogB/study2/c.dcm", NoStudy),
     Item("catalogB/study2/c.dcm", StudyS1),
     Item("catalogB/study1/a.dcm", NoStudy),
     Item("catalogB/study1/a.dcm", StudyS2),
     Item("catalogA\\study1\\a.dcm", StudyS2),
     Item("dicom_files/c.dcm", StudyS1),
     Item("a.dcm", StudyS1)}

\* The lists of at most MaxFiles items.  The list is written by one walk over
\* a directory tree, so the records of a file are a function of its path.
Inputs ==
    {items \in UNION {[1..n -> Items] : n \in 0..MaxFiles} :
        \A j, k \in DOMAIN items :
            items[j].FilePath = items[k].FilePath => items[j].Dataset = items[k].Dataset}

NoFile == [written |-> FALSE, triples |-> {}]

NoResponse == [status |-> 0, detail |-> "", content |-> NoFile, filename |-> ""]

NotCalled == [kind |-> "NotCalled", lex |-> "", datatype |-> ""]

\* the parts of the state a specification does not use
IdleMapper ==
    /\ data = <<>> /\ os_name = "posix" /\ pc = "idle" /\ i = 1 /\ catalogs = <<>>
    /\ c = 1 /\ f = 1 /\ g = {} /\ output_file = NoFile

IdleServer == g_main = {} /\ request = "" /\ response = NoResponse

IdleParse == value = None /\ vr = "" /\ result = NotCalled

NoFacts == [called |-> FALSE, triples |-> {}]

NoQuery == [query |-> "", raises |-> "", rows |-> <<>>]

NoAnswer == [status |-> 0, detail |-> "", results |-> <<>>]

IdleElem == elem = Elem("", "", None) /\ facts = NoFacts

IdleQuery ==
    /\ sparql_query = NoQuery /\ sq_pc = "idle" /\ qres = <<>> /\ results = <<>>
    /\ sq_response = NoAnswer

(***************************************************************************)
(* The mapper, one action per loop iteration.                              *)
(***************************************************************************)
InitMapper ==
    /\ data \in Inputs
    /\ os_name \in {"posix", "nt"}
    /\ pc = "group"
    /\ i = 1
    /\ catalogs = <<>>
    /\ c = 1
    /\ f = 1
    /\ g = {}
    /\ output_file = NoFile
    /\ IdleServer /\ IdleParse /\ IdleElem /\ IdleQuery

\* for item in data: ... catalogs[catalog_name].append(item)
GroupItem ==
    /\ pc = "group"
    /\ IF i <= Len(data)
       THEN /\ catalogs' = group_item(catalogs, data[i])
            /\ i' = i + 1
            /\ pc' = pc
       ELSE /\ pc' = "catalog"
            /\ UNCHANGED <<catalogs, i>>
    /\ UNCHANGED <<data, os_name, c, f, g, output_file, server_vars, parse_vars, elem_vars, query_vars>>

\* for catalog_name, catalog_data in catalogs.items(): the catalog and dataset facts
NextCatalog ==
    /\ pc = "catalog"
    /\ IF c <= Len(catalogs)
       THEN /\ g' = g \cup catalog_facts(catalogs[c].catalog_name, catalogs[c].catalog_data)
            /\ f' = 1
            /\ pc' = "file"
       ELSE /\ pc' = "serialize"
            /\ UNCHANGED <<g, f>>
    /\ UNCHANGED <<data, os_name, i, catalogs, c, output_file, server_vars, parse_vars, elem_vars, query_vars>>

\* for item in catalog_data: the distribution facts of one file
AddFile ==
    /\ pc = "file"
    /\ IF f <= Len(catalogs[c].catalog_data)
       THEN /\ g' = g \cup file_facts(catalogs[c].catalog_name,
                                      catalogs[c].catalog_data[f], os_name)
            /\ f' = f + 1
            /\ UNCHANGED <<c, pc>>
       ELSE /\ c' = c + 1
            /\ pc' = "catalog"
            /\ UNCHANGED <<g, f>>
    /\ UNCHANGED <<data, os_name, i, catalogs, output_file, server_vars, parse_vars, elem_vars, query_vars>>

\* g.serialize(destination=output_file, format="turtle")
Serialize ==
    /\ pc = "serialize"
    /\ output_file' = [written |-> TRUE, triples |-> g]
    /\ pc' = "done"
    /\ UNCHANGED <<data, os_name, i, catalogs, c, f, g, server_vars, parse_vars, elem_vars, query_vars>>

NextMapper == GroupItem \/ NextCatalog \/ AddFile \/ Serialize

SpecMapper == InitMapper /\ [][NextMapper]_vars

\* the stepwise run writes the graph of the function taken as a whole
MapperResult ==
    pc = "done" => output_file.triples = json_to_rdf_multiple_catalogs(data, os_name)

(***************************************************************************)
(* Vocabulary of the properties of the mapper.                             *)
(***************************************************************************)
\* positions of the separators of a path, of either kind
Separators(p) == {k \in 1..Len(p) : ch(p, k) \in {"/", "\\"}}

SegmentCount(p) == Cardinality(Separators(p)) + 1

\* the text between the first separator and the second (or the end)
SecondSegment(p) ==
    LET first == CHOOSE k \in Separators(p) : \A j \in Separators(p) : k <= j
        later == {k \in Separators(p) : k > first}
        stop  == IF later = {} THEN Len(p) + 1
                 ELSE CHOOSE k \in later : \A j \in later : k <= j
    IN  SubSeq(p, first + 1, stop - 1)

\* the text after the last separator of either kind, and the text before it
LastSegment(p) == basename(p, "nt")

Directory(p) == SubSeq(p, 1, Len(p) - Len(LastSegment(p)))

\* indices of the items that are assigned to a catalog
Grouped(items) == {k \in DOMAIN items : SegmentCount(items[k].FilePath) >= 2}

HasStudyId(item) == \E k \in DOMAIN item.Dataset : item.Dataset[k].Name = "Study Instance UID"

\* the value of the first Study Instance UID record of an item, if any
StudyId(item) ==
    IF HasStudyId(item)
    THEN item.Dataset[CHOOSE k \in DOMAIN item.Dataset :
                          /\ item.Dataset[k].Name = "Study Instance UID"
                          /\ \A j \in 1..(k - 1) :
                                 item.Dataset[j].Name # "Study Instance UID"].Value
    ELSE None

NodesOfType(graph, class) == {t[1] : t \in {u \in graph : u[2] = RDF("type") /\ u[3] = class}}

Objects(graph, s, p) == {t[3] : t \in {u \in graph : u[1] = s /\ u[2] = p}}

Subjects(graph, p, o) == {t[1] : t \in {u \in graph : u[2] = p /\ u[3] = o}}

\* the Distribution node of item k: the node typed Distribution whose URI the
\* code derives for it
DistributionOf(k) == subject(SecondSegment(data[k].FilePath), data[k], os_name)

\* the Dataset nodes item k is linked from
DatasetsOf(graph, k) == Subjects(graph, DCAT("distribution"), DistributionOf(k))

Permute(items, pf) == [k \in DOMAIN items |-> items[pf[k]]]

InsertAt(items, j, x) == SubSeq(items, 1, j - 1) \o <<x>> \o SubSeq(items, j, Len(items))

Without(items, drop) ==
    LET keep == {k \in DOMAIN items : k \notin drop}
        RECURSIVE take(_)
        take(n) == IF n = 0 THEN <<>>
                   ELSE IF n \in keep THEN Append(take(n - 1), items[n]) ELSE take(n - 1)
    IN  take(Len(items))

\* the identity of a file on the platform: '\' separates directories on nt only
FileId(p) == IF os_name = "nt" THEN replace(p) ELSE p

DirectoryOf(p) == SubSeq(FileId(p), 1, Len(FileId(p)) - Len(basename(p, os_name)))

(***************************************************************************)
(* Properties of json_to_rdf_multiple_catalogs.                            *)
(***************************************************************************)
\* C2: two distinct grouped files with the same basename in different
\* directories have distinct Distribution subjects, and there are as many
\* Distribution nodes as grouped files.
C2_DistinctFilesDistinctSubjects ==
    pc = "done" =>
        /\ \A j, k \in Grouped(data) :
               ( /\ basename(data[j].FilePath, os_name) = basename(data[k].FilePath, os_name)
                 /\ DirectoryOf(data[j].FilePath) # DirectoryOf(data[k].FilePath) )
               => DistributionOf(j) # DistributionOf(k)
        /\ Cardinality(NodesOfType(g, DCAT("Distribution")))
               = Cardinality({FileId(data[k].FilePath) : k \in Grouped(data)})

\* C3 as stated: every permutation of the input list assembles the same graph.
C3_OrderIndependent ==
    pc = "done" =>
        \A pf \in Permutations(DOMAIN data) :
            json_to_rdf_multiple_catalogs(Permute(data, pf), os_name) = g

IdentifierFacts(graph) == {t \in graph : t[2] = DCTERMS("identifier")}

\* C3 amended: every permutation of the input list assembles the same graph
\* apart from the dcterms:identifier facts of the Datasets, which come from
\* the first file of each catalog.
C3_OrderIndependentButIdentifier ==
    pc = "done" =>
        \A pf \in Permutations(DOMAIN data) :
            LET other == json_to_rdf_multiple_catalogs(Permute(data, pf), os_name)
            IN  other \ IdentifierFacts(other) = g \ IdentifierFacts(g)

\* C3 witness: a finished run whose input, taken in another order, gives
\* another identifier fact and the same other facts.
C3_Witness ==
    /\ pc = "done"
    /\ \E pf \in Permutations(DOMAIN data) :
           LET other == json_to_rdf_multiple_catalogs(Permute(data, pf), os_name)
           IN  other # g /\ Cardinality(NodesOfType(g, DCAT("Distribution"))) = 2

\* the Dataset node a grouped item is filed under: the one its catalog owns
DatasetNode(k) ==
    CHOOSE d \in Objects(g, catalog_uri(SecondSegment(data[k].FilePath)), DCAT("dataset")) : TRUE

\* every Dataset node is the child of exactly one Catalog
OneCatalogPerDataset ==
    \A d \in NodesOfType(g, DCAT("Dataset")) :
        Cardinality(Subjects(g, DCAT("dataset"), d) \cap NodesOfType(g, DCAT("Catalog"))) = 1

\* C4 as stated: two grouped files share a Dataset node exactly when they
\* have the same catalog name and the same study identifier.
C4_GroupedByCatalogAndStudy ==
    pc = "done" =>
        /\ \A j, k \in Grouped(data) :
               (DatasetNode(j) = DatasetNode(k))
               <=> ( /\ SecondSegment(data[j].FilePath) = SecondSegment(data[k].FilePath)
                     /\ StudyId(data[j]) = StudyId(data[k]) )
        /\ OneCatalogPerDataset

\* C4 amended: a grouped file is linked from the Dataset node of its catalog;
\* two grouped files share that node exactly when they have the same catalog
\* name, whatever their study identifiers; every Dataset node is the child of
\* exactly one Catalog.
C4_GroupedByCatalog ==
    pc = "done" =>
        /\ \A k \in Grouped(data) : DatasetNode(k) \in DatasetsOf(g, k)
        /\ \A j, k \in Grouped(data) :
               (DatasetNode(j) = DatasetNode(k))
               <=> (SecondSegment(data[j].FilePath) = SecondSegment(data[k].FilePath))
        /\ OneCatalogPerDataset

\* C4 witness: two files of one catalog with different study identifiers, and
\* two files of different catalogs with the same one.
C4_Witness ==
    /\ pc = "done"
    /\ Len(data) = 2 /\ Grouped(data) = {1, 2}
    /\ \/ /\ DatasetNode(1) = DatasetNode(2)
          /\ StudyId(data[1]) # StudyId(data[2])
       \/ /\ DatasetNode(1) # DatasetNode(2)
          /\ StudyId(data[1]) = StudyId(data[2])

\* the two files of the end-to-end scenario
ScenarioA == Item("catalogA/study1/a.dcm", StudyS1)

ScenarioB == Item("catalogA/study1/b.dcm", StudyS1)

\* one Catalog named name, one Dataset with identifier S1 linked from it, and
\* two Distributions, both linked from that Dataset
ScenarioGraph(name) ==
    /\ NodesOfType(g, DCAT("Catalog")) = {catalog_uri(name)}
    /\ Cardinality(NodesOfType(g, DCAT("Dataset"))) = 1
    /\ \A d \in NodesOfType(g, DCAT("Dataset")) :
           /\ Objects(g, d, DCTERMS("identifier")) = {Literal("S1", "")}
           /\ Subjects(g, DCAT("dataset"), d) = {catalog_uri(name)}
           /\ Objects(g, d, DCAT("distribution")) = NodesOfType(g, DCAT("Distribution"))
    /\ Cardinality(NodesOfType(g, DCAT("Distribution"))) = 2
    /\ \A s \in NodesOfType(g, DCAT("Distribution")) :
           Objects(g, s, DICOM("Modality")) = {Literal("CT", "")}

\* C5 as stated: the scenario yields one Catalog named catalogA, one Dataset
\* S1 linked from it and two Distributions linked from that Dataset.
C5_ScenarioCatalogA ==
    (pc = "done" /\ data = <<ScenarioA, ScenarioB>>) => ScenarioGraph("catalogA")

\* C5 amended: the scenario yields one Catalog named study1 (the second path
\* segment), one Dataset with identifier S1 linked from it, and two
\* Distributions, both linked from that Dataset.
C5_ScenarioSecondSegment ==
    (pc = "done" /\ data = <<ScenarioA, ScenarioB>>) => ScenarioGraph("study1")

\* C5 witness: the scenario has been assembled.
C5_Witness ==
    /\ pc = "done" /\ data = <<ScenarioA, ScenarioB>>
    /\ Cardinality(NodesOfType(g, DCAT("Distribution"))) = 2

\* the first grouped item of the catalog of item k
FirstOfCatalog(k) ==
    CHOOSE j \in Grouped(data) :
        /\ SecondSegment(data[j].FilePath) = SecondSegment(data[k].FilePath)
        /\ \A m \in Grouped(data) :
               SecondSegment(data[m].FilePath) = SecondSegment(data[k].FilePath) => j <= m

\* C6 as stated: the Dataset of a grouped file without a Study Instance UID
\* record carries the identifier "unknown_study".
C6_UnknownStudySentinel ==
    pc = "done" =>
        \A k \in Grouped(data) :
            ~HasStudyId(data[k])
            => Literal("unknown_study", "") \in Objects(g, DatasetNode(k), DCTERMS("identifier"))

\* C6 amended: a grouped file without a Study Instance UID record is filed
\* under the Dataset of its catalog like any other file; when it is the first
\* file of its catalog that Dataset carries no identifier fact at all, and
\* otherwise it carries only the identifier of the first file.
C6_NoIdentifierWithoutStudy ==
    pc = "done" =>
        \A k \in Grouped(data) :
            ~HasStudyId(data[k])
            => /\ DatasetNode(k) \in DatasetsOf(g, k)
               /\ Objects(g, DatasetNode(k), DCTERMS("identifier"))
                     = IF StudyId(data[FirstOfCatalog(k)]) \notin {None, Str("")}
                       THEN {Literal(StudyId(data[FirstOfCatalog(k)]).s, "")}
                       ELSE {}

\* C6 witness: catalogB/study2/c.dcm, without a study identifier, assembled as
\* the first file of its catalog.
C6_Witness ==
    /\ pc = "done"
    /\ \E k \in Grouped(data) :
           /\ data[k].FilePath = "catalogB/study2/c.dcm"
           /\ ~HasStudyId(data[k])
           /\ FirstOfCatalog(k) = k
           /\ DistributionOf(k) \in NodesOfType(g, DCAT("Distribution"))

\* C7: the catalog key is the second segment of the path; a file with fewer
\* than two segments leaves no trace in the graph, and every file with at
\* least two segments is a Distribution linked through a Dataset from the
\* Catalog named by its second segment.
C7_CatalogKeyIsSecondSegment ==
    pc = "done" =>
        /\ json_to_rdf_multiple_catalogs(Without(data, DOMAIN data \ Grouped(data)), os_name) = g
        /\ \A k \in Grouped(data) :
               /\ catalog_uri(SecondSegment(data[k].FilePath)) \in NodesOfType(g, DCAT("Catalog"))
               /\ DistributionOf(k) \in NodesOfType(g, DCAT("Distribution"))
               /\ \E d \in NodesOfType(g, DCAT("Dataset")) :
                      /\ <<catalog_uri(SecondSegment(data[k].FilePath)), DCAT("dataset"), d>> \in g
                      /\ <<d, DCAT("distribution"), DistributionOf(k)>> \in g
        /\ \A t \in g : \E k \in Grouped(data) :
               t[1] \in {catalog_uri(SecondSegment(data[k].FilePath)),
                         dataset_uri(SecondSegment(data[k].FilePath)), DistributionOf(k)}

\* C7 witness: a list with a skipped file and a file written with backslashes
\* that is grouped.
C7_Witness ==
    /\ pc = "done"
    /\ \E j, k \in DOMAIN data :
           /\ j \notin Grouped(data)
           /\ k \in Grouped(data) /\ contains(data[k].FilePath, "\\")
           /\ DistributionOf(k) \in NodesOfType(g, DCAT("Distribution"))

\* C9: assembling an item of the list a second time, after its first
\* occurrence, leaves the graph and its size as they are.
C9_Idempotent ==
    pc = "done" =>
        \A k \in DOMAIN data : \A j \in (k + 1)..(Len(data) + 1) :
            LET again == json_to_rdf_multiple_catalogs(InsertAt(data, j, data[k]), os_name)
            IN  again = g /\ Cardinality(again) = Cardinality(g)

\* C9 witness: a finished run over two different grouped files of one catalog.
C9_Witness ==
    /\ pc = "done"
    /\ Len(data) = 2 /\ Grouped(data) = {1, 2}
    /\ data[1] # data[2]
    /\ DatasetNode(1) = DatasetNode(2)
    /\ StudyId(data[1]) # StudyId(data[2])

(***************************************************************************)
(* main.py: download_catalog_rdf_file                                      *)
(*                                                                         *)
(* g is parsed from the Turtle file when the module is loaded and is not   *)
(* written afterwards.  The file may hold any graph: the graphs drawn are  *)
(* the sets of at most MaxTriples triples of TripleUniverse.               *)
(***************************************************************************)
CatalogA == catalog_uri("catalogA")

CatalogB == catalog_uri("catalogB")

DatasetA == dataset_uri("catalogA")

DistributionA == URIRef("http://example.org/dicom/catalogA_a.dcm")

SeriesA == URIRef("http://example.org/series/1")

Blank == BNode("b0")

TripleUniverse ==
    {<<CatalogA, RDF("type"), DCAT("Catalog")>>,
     <<CatalogA, DCAT("dataset"), DatasetA>>,
     <<CatalogA, DCAT("dataset"), Blank>>,
     <<CatalogA, DCAT("distribution"), DistributionA>>,
     <<DatasetA, RDF("type"), DCAT("Dataset")>>,
     <<DatasetA, DCAT("distribution"), DistributionA>>,
     <<DatasetA, DCAT("distribution"), Blank>>,
     <<DatasetA, DCAT("dataset"), SeriesA>>,
     <<DistributionA, RDF("type"), DCAT("Distribution")>>,
     <<DistributionA, DCTERMS("relation"), SeriesA>>,
     <<DistributionA, DCAT("distribution"), SeriesA>>,
     <<SeriesA, DCTERMS("title"), Literal("series", "")>>,
     <<SeriesA, DCTERMS("relation"), DatasetA>>,
     <<Blank, DCTERMS("title"), Literal("blank", "")>>,
     <<Blank, DCAT("distribution"), DistributionA>>,
     <<Blank, DCTERMS("relation"), Blank>>,
     <<Blank, DCTERMS("relation"), SeriesA>>,
     <<CatalogB, RDF("type"), DCAT("Catalog")>>,
     <<CatalogB, DCAT("dataset"), DatasetA>>,
     <<CatalogB, DCAT("dataset"), Literal("none", "")>>}

RECURSIVE SubsetsUpTo(_, _)
SubsetsUpTo(S, n) ==
    IF n = 0 THEN {{}}
    ELSE LET smaller == SubsetsUpTo(S, n - 1)
         IN  smaller \cup {T \cup {x} : T \in smaller, x \in S}

CatalogNames == {"catalogA", "catalogB", "catalogC"}

\* g.triples((s, None, None))
triples(graph, s) == {t \in graph : t[1] = s}

\* catalog_found testing for the type fact of the catalog alone
catalog_found_typed(graph, catalog_name) ==
    <<catalog_uri(catalog_name), RDF("type"), DCAT("Catalog")>> \in graph

\* (catalog_uri, None, None) in g
catalog_found(graph, catalog_name) == triples(graph, catalog_uri(catalog_name)) # {}

\* result_graph without the facts of the distributions
result_graph_shallow(graph, catalog_name) ==
    LET of_catalog == triples(graph, catalog_uri(catalog_name))
        datasets   == {t[3] : t \in {u \in of_catalog : u[2] = DCAT("dataset")}}
    IN  of_catalog \cup UNION {triples(graph, d) : d \in datasets}

\* result_graph following the links of a distribution one hop further
result_graph_extra_hop(graph, catalog_name) ==
    LET of_catalog == triples(graph, catalog_uri(catalog_name))
        datasets   == {t[3] : t \in {u \in of_catalog : u[2] = DCAT("dataset")}}
        of_dataset == UNION {triples(graph, d) : d \in datasets}
        dists      == {t[3] : t \in {u \in of_dataset :
                                        u[2] = DCAT("distribution") /\ u[3].kind # "BNode"}}
        of_dist    == UNION {triples(graph, d) : d \in dists}
    IN  of_catalog \cup of_dataset \cup of_dist
           \cup UNION {triples(graph, t[3]) : t \in of_dist}

\* result_graph copying the graph it was given
result_graph_whole(graph, catalog_name) == graph

\* result_graph without the test for blank nodes
result_graph_expand_bnode(graph, catalog_name) ==
    LET of_catalog == triples(graph, catalog_uri(catalog_name))
        datasets   == {t[3] : t \in {u \in of_catalog : u[2] = DCAT("dataset")}}
        of_dataset == UNION {triples(graph, d) : d \in datasets}
        dists      == {t[3] : t \in {u \in of_dataset : u[2] = DCAT("distribution")}}
    IN  of_catalog \cup of_dataset \cup UNION {triples(graph, d) : d \in dists}

\* the three nested loops that fill result_graph
result_graph(graph, catalog_name) ==
    LET of_catalog == triples(graph, catalog_uri(catalog_name))
        datasets   == {t[3] : t \in {u \in of_catalog : u[2] = DCAT("dataset")}}
        of_dataset == UNION {triples(graph, d) : d \in datasets}
        dists      == {t[3] : t \in {u \in of_dataset :
                                        u[2] = DCAT("distribution") /\ u[3].kind # "BNode"}}
    IN  of_catalog \cup of_dataset \cup UNION {triples(graph, d) : d \in dists}

InitServer ==
    /\ g_main \in SubsetsUpTo(TripleUniverse, MaxTriples)
    /\ request = ""
    /\ response = NoResponse
    /\ IdleMapper /\ IdleParse /\ IdleElem /\ IdleQuery

\* GET /rdf/{catalog_name}
download_catalog_rdf_file ==
    /\ \E catalog_name \in CatalogNames :
           /\ request' = catalog_name
           /\ response' =
                  IF ~catalog_found(g_main, catalog_name)
                  THEN [status |-> 404,
                        detail |-> "Catalog '" \o catalog_name \o "' not found.",
                        content |-> NoFile,
                        filename |-> ""]
                  ELSE [status |-> 200,
                        detail |-> "",
                        content |-> [written |-> TRUE,
                                     triples |-> result_graph(g_main, catalog_name)],
                        filename |-> catalog_name \o ".ttl"]
    /\ UNCHANGED <<g_main, mapper_vars, parse_vars, elem_vars, query_vars>>

NextServer == download_catalog_rdf_file

SpecServer == InitServer /\ [][NextServer]_vars

(***************************************************************************)
(* Properties of download_catalog_rdf_file.                                *)
(***************************************************************************)
Extracted == response.content.triples

Root == catalog_uri(request)

IsSubjectIn(graph, node) == \E t \in graph : t[1] = node

\* C1 as stated: in every extracted subgraph, the object of each
\* catalog->dataset and dataset->distribution fact is the subject of a fact.
C1_SubgraphClosed ==
    response.status = 200 =>
        \A t \in Extracted :
            t[2] \in {DCAT("dataset"), DCAT("distribution")} => IsSubjectIn(Extracted, t[3])

\* the Datasets of the root Catalog, and the Distributions of those Datasets
RootDatasets == Objects(g_main, Root, DCAT("dataset"))

RootDistributions == UNION {Objects(g_main, d, DCAT("distribution")) : d \in RootDatasets}

\* C1 amended: the extracted subgraph is closed as far as the source graph
\* allows: every Dataset of the root Catalog, and every Distribution of such
\* a Dataset that is not a blank node, is the subject of a fact of the
\* subgraph whenever it is the subject of a fact of the source graph.
C1_SubgraphClosedWhereSourceIs ==
    response.status = 200 =>
        /\ \A d \in RootDatasets :
               /\ <<Root, DCAT("dataset"), d>> \in Extracted
               /\ IsSubjectIn(g_main, d) => IsSubjectIn(Extracted, d)
        /\ \A x \in RootDistributions :
               (x.kind # "BNode" /\ IsSubjectIn(g_main, x)) => IsSubjectIn(Extracted, x)

\* C1 witness: a catalog with a dataset with a distribution, each with facts,
\* has been extracted.
C1_Witness ==
    /\ response.status = 200
    /\ \E d \in RootDatasets : \E x \in Objects(g_main, d, DCAT("distribution")) :
           /\ x.kind # "BNode"
           /\ IsSubjectIn(Extracted, d)
           /\ IsSubjectIn(Extracted, x)

\* C8: a request is answered Not-Found, without a document, exactly when the
\* graph holds no fact whose subject is the catalog; otherwise it is answered
\* with a document.
C8_NotFoundIffNoCatalogFact ==
    response # NoResponse =>
        /\ (response.status = 404) <=> ~IsSubjectIn(g_main, Root)
        /\ response.status = 404 => ~response.content.written
        /\ response.status # 404 => (response.status = 200 /\ response.content.written)

\* C8 witness: Not-Found for a catalog that is missing from a graph that
\* holds another catalog.
C8_Witness ==
    /\ response.status = 404
    /\ ~response.content.written
    /\ NodesOfType(g_main, DCAT("Catalog")) # {}

(***************************************************************************)
(* parse_value as a pure function: the raw values drawn are null, every    *)
(* string of at most MaxRawLen characters of RawChars, and the examples of *)
(* the documentation.                                                      *)
(***************************************************************************)
RawChars == {"0", "1", ".", "[", "]", "x", "-"}

RECURSIVE StringsUpTo(_)
StringsUpTo(n) ==
    IF n = 0 THEN {""}
    ELSE StringsUpTo(n - 1) \cup {s \o a : s \in StringsUpTo(n - 1), a \in RawChars}

RawExamples == {"123", "123.5", "[1,2,3]"}

\* strings of seven, eight and nine characters, of digits and not
DateExamples ==
    {y \o m \o d : y \in {"2025", "20x5", "0000"}, m \in {"08", "1x", "-1"},
                   d \in {"10", "3", "101", ".5"}}

RawValues == {None} \cup {Str(s) : s \in StringsUpTo(MaxRawLen) \cup RawExamples \cup DateExamples}

TypeCodes == {"DS", "IS", "FD", "US", "DA", "TM", "LO"}

InitParse ==
    /\ value \in RawValues
    /\ vr \in TypeCodes
    /\ result = NotCalled
    /\ IdleMapper /\ IdleServer /\ IdleElem /\ IdleQuery

\* lit = parse_value(value, vr)
ParseValue ==
    /\ result = NotCalled
    /\ result' = parse_value(value, vr)
    /\ UNCHANGED <<value, vr, mapper_vars, server_vars, elem_vars, query_vars>>

NextParse == ParseValue

SpecParse == InitParse /\ [][NextParse]_vars

(***************************************************************************)
(* Properties of parse_value.                                              *)
(***************************************************************************)
Bracketed(s) == Len(s) >= 1 /\ ch(s, 1) = "[" /\ ch(s, Len(s)) = "]"

\* s without one leading sign
Unsigned(s) == IF Len(s) >= 1 /\ ch(s, 1) \in {"-", "+"} THEN SubSeq(s, 2, Len(s)) ELSE s

\* an optionally signed decimal numeral: digits around at most one '.'
Numeral(s) ==
    /\ \A k \in 1..Len(Unsigned(s)) : IsDigit(ch(Unsigned(s), k)) \/ ch(Unsigned(s), k) = "."
    /\ Cardinality({k \in 1..Len(Unsigned(s)) : ch(Unsigned(s), k) = "."}) <= 1
    /\ \E k \in 1..Len(Unsigned(s)) : IsDigit(ch(Unsigned(s), k))

DotAt(s) == IF contains(s, ".") THEN CHOOSE k \in 1..Len(s) : ch(s, k) = "." ELSE Len(s) + 1

\* the magnitude of a numeral: its integer part and its fraction in 1e-8
Magnitude(s) ==
    <<NatVal(SubSeq(Unsigned(s), 1, DotAt(Unsigned(s)) - 1)),
      NatVal(SubSeq(SubSeq(Unsigned(s), DotAt(Unsigned(s)) + 1, Len(Unsigned(s))) \o "00000000",
                    1, 8))>>

SameNumber(a, b) ==
    /\ Magnitude(a) = Magnitude(b)
    /\ Magnitude(a) = <<0, 0>> \/ (startswith(a, "-") <=> startswith(b, "-"))

\* C10: under a numeric type code a bracketed string stays Text; any other
\* string that is a numeral becomes a Decimal when it holds a '.' and an
\* Integer when it does not, of the same value; every other string stays Text.
C10_NumericCoercion ==
    (result # NotCalled /\ vr \in {"DS", "IS", "FD", "US"} /\ value # None) =>
        IF Bracketed(value.s) THEN result = Literal(value.s, "")
        ELSE IF Numeral(value.s)
        THEN /\ result.kind = "Literal"
             /\ result.datatype = IF contains(value.s, ".") THEN XSD("decimal")
                                  ELSE XSD("integer")
             /\ Numeral(result.lex) /\ SameNumber(result.lex, value.s)
             /\ value.s = "123" => result.lex = "123"
             /\ value.s = "123.5" => result.lex = "123.5"
        ELSE result = Literal(value.s, "")

\* C10 witness: "123.5" under an integer-string code has become Decimal 123.5.
C10_Witness ==
    /\ value = Str("123.5") /\ vr = "IS"
    /\ result = Literal("123.5", XSD("decimal"))

\* the characters of s are all digits
AllDigits(s) == \A k \in 1..Len(s) : IsDigit(ch(s, k))

\* YYYYMMDD written YYYY-MM-DD
Hyphenated(s) == SubSeq(s, 1, 4) \o "-" \o SubSeq(s, 5, 6) \o "-" \o SubSeq(s, 7, 8)

\* C11 as stated: under the Date type code the result is the Date-tagged
\* literal YYYY-MM-DD exactly when the raw value is a string of eight digits,
\* and Text holding the original string in every other case.
C11_DateIffEightDigits ==
    (result # NotCalled /\ vr = "DA" /\ value # None) =>
        IF Len(value.s) = 8 /\ AllDigits(value.s)
        THEN result = Literal(Hyphenated(value.s), XSD("date"))
        ELSE result = Literal(value.s, "")

\* C11 amended: under the Date type code the result is the Date-tagged
\* literal with hyphens after the fourth and the sixth character exactly when
\* the raw value has eight characters, digits or not, and Text holding the
\* original string for every other length; no error is raised.
C11_DateIffEightCharacters ==
    (result # NotCalled /\ vr = "DA" /\ value # None) =>
        /\ result.kind = "Literal"
        /\ IF Len(value.s) = 8
           THEN result = Literal(Hyphenated(value.s), XSD("date"))
           ELSE result = Literal(value.s, "")

\* C11 witness: the eight digits 20250810 have become the Date 2025-08-10.
C11_Witness ==
    /\ value = Str("20250810") /\ vr = "DA"
    /\ result = Literal("2025-08-10", XSD("date"))

(***************************************************************************)
(* One pass of the element loop (lines 165-179) as a function of the       *)
(* record: the records drawn have a name with two predicates, names with   *)
(* one, and a name that is missing from the mapping table; text in upper,  *)
(* lower and mixed case, in the code table and not; and no value.          *)
(***************************************************************************)
ElemNames == {"Body Part Examined", "Modality", "Study Date", "Private Creator"}

ElemCodes == {"CS", "DA", "IS", "LO"}

ElemValues ==
    {None} \cup {Str(s) : s \in {"THYROID", "thyroid", "Thyroid", "RECTUM", "rectum",
                                 "LIVER", "liver", "", "20250810", "12", "1.50"}}

Elems == {Elem(n, code, val) : n \in ElemNames, code \in ElemCodes, val \in ElemValues}

\* the Distribution node of the file the record belongs to
ElemSubject == subject("study1", Item("catalogA/study1/a.dcm", <<>>), "posix")

InitElem ==
    /\ elem \in Elems
    /\ facts = NoFacts
    /\ IdleMapper /\ IdleServer /\ IdleParse /\ IdleQuery

\* for elem in dataset_tags: one pass
MapElem ==
    /\ ~facts.called
    /\ facts' = [called |-> TRUE, triples |-> elem_facts(ElemSubject, elem)]
    /\ UNCHANGED <<elem, mapper_vars, server_vars, parse_vars, query_vars>>

NextElem == MapElem

SpecElem == InitElem /\ [][NextElem]_vars

(***************************************************************************)
(* Properties of the element loop.                                         *)
(***************************************************************************)
\* the static code table, as pairs of key and coded concept
CodeTable ==
    {<<"THYROID", URIRef("http://snomed.info/sct/111160001")>>,
     <<"RECTUM", URIRef("http://snomed.info/sct/34506005")>>}

CodeOf(key) == {pair[2] : pair \in {q \in CodeTable : q[1] = key}}

\* C12: a "Body Part Examined" record with a text value gives the anatomical
\* site the coded concept of the upper-cased text when the code table has it
\* and the original text as a literal when it has not, and gives
\* dicom:BodyPartExamined the coerced literal; a record whose name is missing
\* from the mapping table gives no fact at all.
C12_AnatomicSiteLookup ==
    facts.called =>
        /\ mapping(elem.Name) = <<>> => facts.triples = {}
        /\ (elem.Name = "Body Part Examined" /\ elem.Value # None) =>
               /\ Objects(facts.triples, ElemSubject, ROO("hasAnatomicSite"))
                     = IF CodeOf(upper(elem.Value.s)) # {}
                       THEN CodeOf(upper(elem.Value.s))
                       ELSE {Literal(elem.Value.s, "")}
               /\ Objects(facts.triples, ElemSubject, DICOM("BodyPartExamined"))
                     = {parse_value(elem.Value, elem.VR)}
               /\ Cardinality(facts.triples) = 2
               /\ \A t \in facts.triples :
                      /\ t[1] = ElemSubject
                      /\ t[2] \in {ROO("hasAnatomicSite"), DICOM("BodyPartExamined")}

\* C12 witness: "thyroid" in lower case has been mapped to the coded concept
\* and to the literal "thyroid".
C12_Witness ==
    /\ facts.called
    /\ elem.Name = "Body Part Examined" /\ elem.Value = Str("thyroid")
    /\ <<ElemSubject, ROO("hasAnatomicSite"), SNOMED("111160001")>> \in facts.triples
    /\ <<ElemSubject, DICOM("BodyPartExamined"), Literal("thyroid", "")>> \in facts.triples

(***************************************************************************)
(* main.py: sparql_query_endpoint.  The evaluator is rdflib's: g.query     *)
(* either raises or returns a result, and iterating the result yields a    *)
(* row of bindings (SELECT), a bool (ASK), a triple (CONSTRUCT), or        *)
(* raises, the evaluation being lazy.  A posted query is drawn together    *)
(* with what evaluating it does; a row binds one variable.                 *)
(***************************************************************************)
ResultRow(term) == [kind |-> "ResultRow", term |-> term, msg |-> ""]

NotARow(kind) == [kind |-> kind, term |-> None, msg |-> ""]

RaisedAt(msg) == [kind |-> "raise", term |-> None, msg |-> msg]

Yielded ==
    {ResultRow(DistributionA), ResultRow(Literal("12", XSD("integer"))),
     ResultRow(Blank), NotARow("bool"), RaisedAt("evaluation failed")}

Queries ==
    {[query |-> "malformed", raises |-> "Expected {SelectQuery | ConstructQuery | DescribeQuery | AskQuery}",
      rows |-> <<>>]}
    \cup {[query |-> "well-formed", raises |-> "", rows |-> rows] :
             rows \in UNION {[1..n -> Yielded] : n \in 0..MaxRows}}

\* asdict giving an unbound row for an item it cannot convert
asdict_lenient(item) ==
    IF item.kind = "ResultRow" THEN [raises |-> "", dict |-> item.term]
    ELSE [raises |-> "", dict |-> Literal("", "")]

\* row.asdict(), evaluated as the iteration reaches the item: the dict, or
\* the message of what is raised
asdict(item) ==
    IF item.kind = "ResultRow" THEN [raises |-> "", dict |-> item.term]
    ELSE IF item.kind = "raise" THEN [raises |-> item.msg, dict |-> None]
    ELSE [raises |-> "'" \o item.kind \o "' object has no attribute 'asdict'", dict |-> None]

\* lines 144-145: a URIRef becomes its string; a Literal and a BNode are
\* strings already and are left as they are
convert(term) == IF term.kind = "URIRef" THEN Str(term.lex) ELSE term

\* the JSON text of a value of a row
jsonable(v) == IF "kind" \in DOMAIN v THEN v.lex ELSE v.s

JSONResponse(content) ==
    [status |-> 200, detail |-> "",
     results |-> [k \in DOMAIN content |-> jsonable(content[k])]]

HTTPException(status_code, detail) ==
    [status |-> status_code, detail |-> detail, results |-> <<>>]

InitQuery ==
    /\ sparql_query \in Queries
    /\ sq_pc = "query"
    /\ qres = <<>>
    /\ results = <<>>
    /\ sq_response = NoAnswer
    /\ IdleMapper /\ IdleServer /\ IdleParse /\ IdleElem

\* qres = g.query(sparql_query.query)
Query ==
    /\ sq_pc = "query"
    /\ IF sparql_query.raises # ""
       THEN /\ sq_response' = HTTPException(400, "Error executing SPARQL query: "
                                                    \o sparql_query.raises)
            /\ sq_pc' = "done"
            /\ UNCHANGED qres
       ELSE /\ qres' = sparql_query.rows
            /\ sq_pc' = "rows"
            /\ UNCHANGED sq_response
    /\ UNCHANGED <<sparql_query, results, mapper_vars, server_vars, parse_vars, elem_vars>>

\* results = [row.asdict() for row in qres], one item at a time
AsDict ==
    /\ sq_pc = "rows"
    /\ IF qres = <<>>
       THEN /\ sq_pc' = "convert"
            /\ UNCHANGED <<qres, results, sq_response>>
       ELSE IF asdict(Head(qres)).raises # ""
       THEN /\ sq_response' = HTTPException(400, "Error executing SPARQL query: "
                                                    \o asdict(Head(qres)).raises)
            /\ sq_pc' = "done"
            /\ UNCHANGED <<qres, results>>
       ELSE /\ results' = Append(results, asdict(Head(qres)).dict)
            /\ qres' = Tail(qres)
            /\ UNCHANGED <<sq_pc, sq_response>>
    /\ UNCHANGED <<sparql_query, mapper_vars, server_vars, parse_vars, elem_vars>>

\* for result in results: ... result[key] = str(value)
Convert ==
    /\ sq_pc = "convert"
    /\ results' = [k \in DOMAIN results |-> convert(results[k])]
    /\ sq_pc' = "return"
    /\ UNCHANGED <<sparql_query, qres, sq_response, mapper_vars, server_vars, parse_vars,
                   elem_vars>>

\* return JSONResponse(content={"results": results})
Return ==
    /\ sq_pc = "return"
    /\ sq_response' = JSONResponse(results)
    /\ sq_pc' = "done"
    /\ UNCHANGED <<sparql_query, qres, results, mapper_vars, server_vars, parse_vars,
                   elem_vars>>

NextQuery == Query \/ AsDict \/ Convert \/ Return

SpecQuery == InitQuery /\ [][NextQuery]_vars

(***************************************************************************)
(* Properties of sparql_query_endpoint.                                    *)
(***************************************************************************)
\* the items of the posted query whose evaluation raises
Failing == {k \in DOMAIN sparql_query.rows : sparql_query.rows[k].kind # "ResultRow"}

\* the message of the first error of the evaluation
FirstError ==
    IF sparql_query.raises # "" THEN sparql_query.raises
    ELSE LET k == CHOOSE j \in Failing : \A h \in Failing : j <= h
         IN  IF sparql_query.rows[k].kind = "raise" THEN sparql_query.rows[k].msg
             ELSE "'" \o sparql_query.rows[k].kind \o "' object has no attribute 'asdict'"

\* C13: the caller gets nothing before the handler is done, and then one
\* response: when the query or any of its rows raised, status 400 with the
\* message of the error and no rows; otherwise status 200 with every row.
C13_AllOrNothing ==
    /\ sq_pc # "done" => sq_response = NoAnswer
    /\ sq_pc = "done" =>
           IF sparql_query.raises # "" \/ Failing # {}
           THEN /\ sq_response.status = 400
                /\ sq_response.results = <<>>
                /\ sq_response.detail = "Error executing SPARQL query: " \o FirstError
           ELSE /\ sq_response.status = 200
                /\ Len(sq_response.results) = Len(sparql_query.rows)
                /\ \A k \in DOMAIN sparql_query.rows :
                       sq_response.results[k] = sparql_query.rows[k].term.lex

\* C13 witness: the first row was turned into a dict, the second raised, and
\* the caller got the error alone.
C13_Witness ==
    /\ sq_pc = "done"
    /\ Len(sparql_query.rows) = 2
    /\ sparql_query.rows[1].kind = "ResultRow" /\ sparql_query.rows[2].kind = "raise"
    /\ Len(results) = 1
    /\ sq_response = HTTPException(400, "Error executing SPARQL query: evaluation failed")

(***************************************************************************)
(* Depth and extent of the extraction.                                     *)
(***************************************************************************)
\* the Distributions whose facts the innermost loop walks
Followed == {x \in RootDistributions : x.kind # "BNode"}

\* the nodes of the three levels the loops walk
Levels == {Root} \cup RootDatasets \cup Followed

\* the objects of the facts of a node
LinkedFrom(node) == {t[3] : t \in triples(g_main, node)}

\* C14 as stated: the facts of every node one hop past a followed
\* Distribution are in the subgraph, and nothing further is there because of
\* that reachability.
C14_OneExtraHop ==
    response.status = 200 =>
        /\ \A x \in Followed : \A y \in LinkedFrom(x) : triples(g_main, y) \subseteq Extracted
        /\ \A t \in Extracted :
               t[1] \in Levels \cup UNION {LinkedFrom(x) : x \in Followed}

\* C14 amended: the extraction stops at the Distribution level: every fact of
\* a followed Distribution is in the subgraph, and a node that such a fact
\* links to has its facts in the subgraph only when it is itself the root
\* Catalog, one of its Datasets or a followed Distribution.
C14_StopsAtDistribution ==
    response.status = 200 =>
        \A x \in Followed :
            /\ triples(g_main, x) \subseteq Extracted
            /\ \A y \in LinkedFrom(x) :
                   y \notin Levels => ~IsSubjectIn(Extracted, y)

\* C14 witness: a followed Distribution links to a node with facts of its own
\* in the source graph, and the subgraph holds the link and not those facts.
C14_Witness ==
    /\ response.status = 200
    /\ \E x \in Followed : \E y \in LinkedFrom(x) :
           /\ y \notin Levels
           /\ IsSubjectIn(g_main, y)
           /\ IsSubjectIn(Extracted, x)
           /\ ~IsSubjectIn(Extracted, y)

\* C15: every fact of the subgraph is a fact of the source graph about the
\* root Catalog, a Dataset of the root Catalog or a Distribution of such a
\* Dataset, and a request leaves the source graph as it was.
C15_NoUnrelatedData ==
    [][/\ g_main' = g_main
       /\ response'.status = 200 =>
              \A t \in Extracted' :
                  /\ t \in g_main
                  /\ t[1] \in {Root'} \cup RootDatasets' \cup RootDistributions']_vars

\* C15 witness: a catalog was extracted from a graph that holds a fact about
\* a node outside its three levels, among them a Dataset it shares with the
\* other catalog.
C15_Witness ==
    /\ response.status = 200
    /\ \E d \in RootDatasets : \E other \in CatalogNames :
           other # request /\ <<catalog_uri(other), DCAT("dataset"), d>> \in g_main
    /\ \E t \in g_main : t[1] \notin {Root} \cup RootDatasets \cup RootDistributions
    /\ Extracted # g_main

\* the blank nodes that a Dataset of the root Catalog has for a Distribution
BlankDistributions == {x \in RootDistributions : x.kind = "BNode"}

\* C16: when the object of a dataset->distribution fact is a blank node, the
\* link is in the subgraph, the blank node is not expanded (its own facts
\* are there only when it is also a Dataset of the root), and the nodes it
\* links to have no fact in the subgraph unless one of the three levels
\* holds them; the subgraph is a finite part of the source graph.
C16_BlankNotExpanded ==
    response.status = 200 =>
        /\ Extracted \subseteq g_main /\ IsFiniteSet(Extracted)
        /\ \A b \in BlankDistributions :
               /\ \A d \in RootDatasets :
                      <<d, DCAT("distribution"), b>> \in g_main
                      => <<d, DCAT("distribution"), b>> \in Extracted
               /\ b \notin RootDatasets => ~IsSubjectIn(Extracted, b)
               /\ \A y \in LinkedFrom(b) : y \notin Levels => ~IsSubjectIn(Extracted, y)

\* C16 witness: a Dataset has a blank node for a Distribution, the blank node
\* has a fact of its own that leads on to a node with facts, and the subgraph
\* holds the link alone.
C16_Witness ==
    /\ response.status = 200
    /\ \E b \in BlankDistributions : \E y \in LinkedFrom(b) :
           /\ b \notin RootDatasets
           /\ y \notin Levels /\ y # b /\ IsSubjectIn(g_main, y)
           /\ \E d \in RootDatasets : <<d, DCAT("distribution"), b>> \in Extracted
           /\ ~IsSubjectIn(Extracted, b)
           /\ ~IsSubjectIn(Extracted, y)

(***************************************************************************)
(* The graph during assembly.                                              *)
(***************************************************************************)
\* no dangling reference: what a Dataset has for a Distribution is typed a
\* Distribution, and what a Catalog has for a Dataset is typed a Dataset
ValidPartial(graph) ==
    \A t \in graph :
        /\ t[2] = DCAT("distribution") => <<t[3], RDF("type"), DCAT("Distribution")>> \in graph
        /\ t[2] = DCAT("dataset") => <<t[3], RDF("type"), DCAT("Dataset")>> \in graph

\* C17: no step of the assembly removes a fact from the graph, and after
\* the facts of a catalog and after each file the graph is a valid partial
\* graph.
C17_GrowsAndStaysValid ==
    [][g \subseteq g' /\ ValidPartial(g')]_vars

\* C17 witness: between two files of one catalog, the first file is in the
\* graph as a typed Distribution and the second is still to come.
C17_Witness ==
    /\ pc = "file"
    /\ f = 2 /\ f <= Len(catalogs[c].catalog_data)
    /\ \E t \in g : t[2] = DCAT("distribution") /\ <<t[3], RDF("type"), DCAT("Distribution")>> \in g
    /\ ValidPartial(g)

====
